---- MODULE Spec2Model ----
(***************************************************************************)
(* Value types of the FaunaDB JavaScript driver (src/objects.js): Ref,     *)
(* SetRef, Page, FaunaTime and FaunaDate.                                  *)
(*                                                                         *)
(* A JavaScript string is a sequence of one-character strings.  Every      *)
(* JavaScript value is a record with a "type" field.  A client session     *)
(* evaluates the arguments of one constructor call, constructs one object, *)
(* calls methods on it (or on what a method returned) and drops it.        *)
(***************************************************************************)
EXTENDS Integers, Sequences, FiniteSets, TLC

VARIABLES
    obj,   \* the object the client holds; Undefined when it holds none
    op,    \* the last completed call; "" while arguments are being evaluated
    args,  \* the arguments of that call (or those evaluated so far)
    self,  \* the receiver as it was when the call started
    ret,   \* what the call returned; Undefined when it threw
    err    \* the error the call threw, "none" when it returned

vars == <<obj, op, args, self, ret, err>>

----------------------------------------------------------------------------
(* Bounds of the model *)

\* Longest string passed as one path segment.
MaxSegLen == 2

\* Most arguments of one Ref constructor call.
MaxSegs == 3

\* Longest data array given to a Page.
MaxDataLen == 2

\* Longest of the short strings given to the FaunaTime / FaunaDate constructors.
MaxTsLen == 2

----------------------------------------------------------------------------
(* JavaScript values *)

Undefined == [type |-> "undefined"]

Str(s) == [type |-> "string", chars |-> s]

Num(n) == [type |-> "number", n |-> n]

Bool(b) == [type |-> "boolean", b |-> b]

Arr(items) == [type |-> "Array", items |-> items]

\* A function value: map[x] is what the function returns for element x.
Func(f) == [type |-> "function", map |-> f]

\* A plain object; a key outside DOMAIN fields reads as undefined.
Obj(fields) == [type |-> "Object", fields |-> fields]

Get(object, key) ==
    IF key \in DOMAIN object.fields THEN object.fields[key] ELSE Undefined

\* The outcome of a call: the receiver (or the constructed object) after it,
\* the value returned, the error thrown.
Returned(this, value) == [this |-> this, ret |-> value, err |-> "none"]

Thrown(this, error) == [this |-> this, ret |-> Undefined, err |-> error]

\* All strings over alphabet of length at most n.
StringsUpTo(alphabet, n) == UNION {[1..k -> alphabet] : k \in 0..n}

----------------------------------------------------------------------------
(* String and array built-ins used by the source *)

\* Array.prototype.join for an array of strings.
RECURSIVE Join(_, _)
Join(parts, sep) ==
    IF Len(parts) = 0 THEN <<>>
    ELSE IF Len(parts) = 1 THEN parts[1]
    ELSE parts[1] \o sep \o Join(Tail(parts), sep)

\* String.prototype.split on a one-character separator.
RECURSIVE Split(_, _)
Split(s, sep) ==
    IF \A i \in 1..Len(s) : s[i] # sep THEN <<s>>
    ELSE LET k == CHOOSE i \in 1..Len(s) :
                      s[i] = sep /\ \A j \in 1..(i - 1) : s[j] # sep
         IN  <<SubSeq(s, 1, k - 1)>> \o Split(SubSeq(s, k + 1, Len(s)), sep)

\* String.prototype.endsWith.
EndsWith(s, suffix) ==
    /\ Len(s) >= Len(suffix)
    /\ SubSeq(s, Len(s) - Len(suffix) + 1, Len(s)) = suffix

\* String.prototype.slice(from, to) with 0 <= from <= to (0-based, to excluded).
Slice(s, from, to) ==
    SubSeq(s, from + 1, IF to < Len(s) THEN to ELSE Len(s))

----------------------------------------------------------------------------
(* Ref *)

\* toString() and valueOf()
RefToString(this) == this.value

\* ToString of one constructor argument, as join applies it: a string is
\* itself, a Ref goes through Ref.toString.

JSToString(v) ==
    IF v.type = "Ref" THEN RefToString(v) ELSE v.chars

\* A constructor that joins with "//".
JoinedDoubleSep(arguments) ==
    [type |-> "Ref",
     value |-> Join([i \in 1..Len(arguments) |-> JSToString(arguments[i])],
                    <<"/", "/">>)]

\* A constructor that ends every segment, the last included, with "/".
JoinedTrailingSep(arguments) ==
    [type |-> "Ref",
     value |-> Join([i \in 1..Len(arguments) |-> JSToString(arguments[i])],
                    <<"/">>) \o <<"/">>]

\* new Ref(...arguments)
RefNew(arguments) ==
    [type |-> "Ref",
     value |-> Join([i \in 1..Len(arguments) |-> JSToString(arguments[i])],
                    <<"/">>)]

\* A class getter that drops the first segment instead of the last.
RefClassDropsFirst(this) ==
    LET parts == Split(this.value, "/")
    IN  IF Len(parts) = 1
        THEN Returned(this, this)
        ELSE Returned(this, RefNew(<<Str(Join(Tail(parts), <<"/">>))>>))

\* get class()
RefClass(this) ==
    LET parts == Split(this.value, "/")
    IN  IF Len(parts) = 1
        THEN Returned(this, this)
        ELSE Returned(this, RefNew(<<Str(Join(SubSeq(parts, 1, Len(parts) - 1),
                                              <<"/">>))>>))

\* An id getter without the one-segment check.
RefIdNeverThrows(this) ==
    LET parts == Split(this.value, "/")
    IN  Returned(this, Str(parts[Len(parts)]))

\* get id()
RefId(this) ==
    LET parts == Split(this.value, "/")
    IN  IF Len(parts) = 1
        THEN Thrown(this, "InvalidValue")
        ELSE Returned(this, Str(parts[Len(parts)]))

\* toJSON()
RefToJSON(this) == Returned(this, Obj("@ref" :> this.value))

\* An equals without the instanceof test: a string compares by content.
RefEqualsUntyped(this, other) ==
    Returned(this, Bool(IF other.type = "Ref" THEN this.value = other.value
                        ELSE other.type = "string" /\ this.value = other.chars))

\* equals(other)
RefEquals(this, other) ==
    Returned(this, Bool(other.type = "Ref" /\ this.value = other.value))

----------------------------------------------------------------------------
(* SetRef *)

\* new SetRef(query)
SetRefNew(query) == [type |-> "SetRef", query |-> query]

\* A toJSON that reads this.value, which a SetRef does not have.
SetRefToJSONReadsValue(this) ==
    Returned(this, Obj("@set" :> (IF "value" \in DOMAIN this THEN this.value
                                  ELSE Undefined)))

\* toJSON()
SetRefToJSON(this) == Returned(this, Obj("@set" :> this.query))

----------------------------------------------------------------------------
(* Page *)

\* new Page(data, before, after)
PageNew(data, before, after) ==
    [type |-> "Page", data |-> data, before |-> before, after |-> after]

\* Page.fromRaw(object)
PageFromRaw(object) ==
    PageNew(Get(object, "data"), Get(object, "before"), Get(object, "after"))

\* Array.prototype.map over an array without holes; map passes the element,
\* its index and the array, and the callback reads the element only.
ArrayMap(items, func) == [i \in 1..Len(items) |-> func.map[items[i]]]

\* mapData(func); reading .map of a value that is no array throws.
PageMapData(this, func) ==
    IF this.data.type = "Array"
    THEN Returned(this, PageNew(Arr(ArrayMap(this.data.items, func)),
                                this.before, this.after))
    ELSE Thrown(this, "TypeError")

----------------------------------------------------------------------------
(* Date.prototype.toISOString *)

\* A native Date: an invalid one (time value NaN), or the day number
\* Day(t) = floor(t / msPerDay) and the milliseconds within that day.
InvalidDate == [type |-> "Date", valid |-> FALSE, day |-> 0, ms |-> 0]

DateAt(day, ms) == [type |-> "Date", valid |-> TRUE, day |-> day, ms |-> ms]

DigitChar(n) == <<"0", "1", "2", "3", "4", "5", "6", "7", "8", "9">>[n + 1]

\* n in decimal, padded with zeros to w digits.
RECURSIVE Pad(_, _)
Pad(n, w) ==
    IF w = 0 THEN <<>> ELSE Pad(n \div 10, w - 1) \o <<DigitChar(n % 10)>>

\* Year, month and day of the month of a day number (proleptic Gregorian).
CivilFromDay(day) ==
    LET z   == day + 719468
        era == z \div 146097
        doe == z - era * 146097
        yoe == (doe - doe \div 1460 + doe \div 36524 - doe \div 146096) \div 365
        doy == doe - (365 * yoe + yoe \div 4 - yoe \div 100)
        mp  == (5 * doy + 2) \div 153
        d   == doy - (153 * mp + 2) \div 5 + 1
        m   == IF mp < 10 THEN mp + 3 ELSE mp - 9
        y   == yoe + era * 400 + (IF m <= 2 THEN 1 ELSE 0)
    IN  [year |-> y, month |-> m, date |-> d]

\* Four digits for the years 0 to 9999, else a sign and six digits.
YearString(y) ==
    IF y >= 0 /\ y <= 9999 THEN Pad(y, 4)
    ELSE IF y < 0 THEN <<"-">> \o Pad(0 - y, 6)
    ELSE <<"+">> \o Pad(y, 6)

\* toISOString() of a valid Date.
DateToISOString(date) ==
    LET c == CivilFromDay(date.day)
    IN  YearString(c.year) \o <<"-">> \o Pad(c.month, 2) \o <<"-">>
        \o Pad(c.date, 2) \o <<"T">>
        \o Pad(date.ms \div 3600000, 2) \o <<":">>
        \o Pad((date.ms \div 60000) % 60, 2) \o <<":">>
        \o Pad((date.ms \div 1000) % 60, 2) \o <<".">>
        \o Pad(date.ms % 1000, 3) \o <<"Z">>

----------------------------------------------------------------------------
(* FaunaTime *)

\* A constructor that accepts a string with a Z anywhere in it.
FaunaTimeNewAcceptsAnyZ(value) ==
    IF value.type = "Date"
    THEN IF value.valid
         THEN LET t == [type |-> "FaunaTime", value |-> DateToISOString(value)]
              IN  Returned(t, t)
         ELSE Thrown(Undefined, "RangeError")
    ELSE IF \A i \in 1..Len(value.chars) : value.chars[i] # "Z"
         THEN Thrown(Undefined, "InvalidValue")
         ELSE LET t == [type |-> "FaunaTime", value |-> value.chars]
              IN  Returned(t, t)

\* new FaunaTime(value); toISOString throws RangeError on an invalid Date.
FaunaTimeNew(value) ==
    IF value.type = "Date"
    THEN IF value.valid
         THEN LET t == [type |-> "FaunaTime", value |-> DateToISOString(value)]
              IN  Returned(t, t)
         ELSE Thrown(Undefined, "RangeError")
    ELSE IF ~EndsWith(value.chars, <<"Z">>)
         THEN Thrown(Undefined, "InvalidValue")
         ELSE LET t == [type |-> "FaunaTime", value |-> value.chars]
              IN  Returned(t, t)

\* toJSON()
FaunaTimeToJSON(this) == Returned(this, Obj("@ts" :> this.value))

----------------------------------------------------------------------------
(* FaunaDate *)

\* new FaunaDate(value)
FaunaDateNew(value) ==
    IF value.type = "Date"
    THEN IF value.valid
         THEN LET d == [type |-> "FaunaDate",
                        value |-> Slice(DateToISOString(value), 0, 10)]
              IN  Returned(d, d)
         ELSE Thrown(Undefined, "RangeError")
    ELSE LET d == [type |-> "FaunaDate", value |-> value.chars]
         IN  Returned(d, d)

\* toJSON()
FaunaDateToJSON(this) == Returned(this, Obj("@date" :> this.value))

----------------------------------------------------------------------------
(* Inputs *)

Chars == {"a", "/"}

SegStrings == StringsUpTo(Chars, MaxSegLen)

\* References a caller may pass as a path segment.
SegRefs == {RefNew(<<Str(<<"a">>)>>), RefNew(<<Str(<<"a">>), Str(<<"a", "a">>)>>)}

Segments == {Str(s) : s \in SegStrings} \cup SegRefs

\* What equals may be given.
Others(this) ==
    {this, Str(this.value), Undefined} \cup Segments

\* The values a method may be called on.
Receivers == {obj, ret}

\* Query expressions a SetRef may wrap; opaque here.
Queries ==
    {Undefined, Str(<<"a">>), RefNew(<<Str(<<"a">>)>>),
     Obj("match" :> RefNew(<<Str(<<"a", "/", "a">>)>>)), Arr(<<Num(1)>>)}

\* Page elements, and the pure element-to-element transforms over them.
Elems == {Num(0), Num(1)}

Transforms == {Func(m) : m \in [Elems -> Elems]}

\* What a caller may pass as data: arrays, and values that are no array.
DataPool == {Undefined, Num(5)} \cup {Arr(s) : s \in StringsUpTo(Elems, MaxDataLen)}

BeforePool == {Undefined, RefNew(<<Str(<<"a">>)>>)}

AfterPool == {Undefined, RefNew(<<Str(<<"a">>), Str(<<"a", "a">>)>>)}

\* A decoded object with the keys data, before, after; a key given as
\* Undefined is absent from the object.
RawObject(data, before, after) ==
    LET field == [k \in {"data", "before", "after"} |->
                     IF k = "data" THEN data
                     ELSE IF k = "before" THEN before ELSE after]
    IN  Obj([k \in {k \in {"data", "before", "after"} : field[k] # Undefined}
                |-> field[k]])

\* Native dates: 1970-01-01, 2023-06-15, 2024-02-29, 9999-12-31, 10000-01-01,
\* 0000-01-01, -000001-12-31 and 1969-12-31, at 00:00:00.000, 12:34:56.789
\* and 23:59:59.000; and the invalid date.
SampleDays == {0, 19523, 19782, 2932896, 2932897, -719528, -719529, -1}

SampleMs == {0, 45296789, 86399000}

NativeDates == {DateAt(d, m) : d \in SampleDays, m \in SampleMs} \cup {InvalidDate}

\* The ISO string with its Z replaced by the offset +01:00.
WithOffset(iso) == SubSeq(iso, 1, Len(iso) - 1) \o <<"+", "0", "1", ":", "0", "0">>

TimeStrings ==
    StringsUpTo({"Z", "1"}, MaxTsLen)
    \cup {DateToISOString(d) : d \in NativeDates \ {InvalidDate}}
    \cup {WithOffset(DateToISOString(d)) : d \in NativeDates \ {InvalidDate}}

TimeInputs == NativeDates \cup {Str(s) : s \in TimeStrings}

----------------------------------------------------------------------------
(* The client session *)

Init ==
    /\ obj = Undefined
    /\ op = ""
    /\ args = <<>>
    /\ self = Undefined
    /\ ret = Undefined
    /\ err = "none"

\* A constructor call completes: the object is held unless the call threw.
Constructed(name, arguments, c) ==
    /\ op' = name
    /\ args' = arguments
    /\ self' = Undefined
    /\ obj' = c.this
    /\ ret' = c.ret
    /\ err' = c.err

\* A method call on receiver this completes.
Called(name, this, arguments, c) ==
    /\ op' = name
    /\ args' = arguments
    /\ self' = this
    /\ obj' = c.this
    /\ ret' = c.ret
    /\ err' = c.err

\* The caller evaluates one more argument of a Ref constructor call.
PushSegment ==
    /\ op = ""
    /\ Len(args) < MaxSegs
    /\ \E v \in Segments : args' = Append(args, v)
    /\ UNCHANGED <<obj, op, self, ret, err>>

NewRef ==
    /\ op = ""
    /\ LET r == RefNew(args) IN Constructed("new Ref", args, Returned(r, r))

GetClass ==
    \E this \in Receivers :
        /\ this.type = "Ref"
        /\ Called("class", this, <<>>, RefClass(this))

GetId ==
    \E this \in Receivers :
        /\ this.type = "Ref"
        /\ Called("id", this, <<>>, RefId(this))

ToStringRef ==
    \E this \in Receivers :
        /\ this.type = "Ref"
        /\ Called("toString", this, <<>>, Returned(this, Str(RefToString(this))))

ToJSONRef ==
    \E this \in Receivers :
        /\ this.type = "Ref"
        /\ Called("Ref.toJSON", this, <<>>, RefToJSON(this))

Equals ==
    \E this \in Receivers :
        /\ this.type = "Ref"
        /\ \E other \in Others(this) :
               Called("equals", this, <<other>>, RefEquals(this, other))

NewSetRef ==
    /\ op = ""
    /\ args = <<>>
    /\ \E query \in Queries :
           LET r == SetRefNew(query)
           IN  Constructed("new SetRef", <<query>>, Returned(r, r))

ToJSONSetRef ==
    \E this \in Receivers :
        /\ this.type = "SetRef"
        /\ Called("SetRef.toJSON", this, <<>>, SetRefToJSON(this))

NewPage ==
    /\ op = ""
    /\ args = <<>>
    /\ \E data \in DataPool, before \in BeforePool, after \in AfterPool :
           LET p == PageNew(data, before, after)
           IN  Constructed("new Page", <<data, before, after>>, Returned(p, p))

FromRaw ==
    /\ op = ""
    /\ args = <<>>
    /\ \E data \in DataPool, before \in BeforePool, after \in AfterPool :
           LET object == RawObject(data, before, after)
               p == PageFromRaw(object)
           IN  Constructed("Page.fromRaw", <<object>>, Returned(p, p))

MapData ==
    \E this \in Receivers :
        /\ this.type = "Page"
        /\ \E func \in Transforms :
               Called("mapData", this, <<func>>, PageMapData(this, func))

NewFaunaTime ==
    /\ op = ""
    /\ args = <<>>
    /\ \E value \in TimeInputs :
           Constructed("new FaunaTime", <<value>>, FaunaTimeNew(value))

ToJSONFaunaTime ==
    \E this \in Receivers :
        /\ this.type = "FaunaTime"
        /\ Called("FaunaTime.toJSON", this, <<>>, FaunaTimeToJSON(this))

NewFaunaDate ==
    /\ op = ""
    /\ args = <<>>
    /\ \E value \in TimeInputs :
           Constructed("new FaunaDate", <<value>>, FaunaDateNew(value))

ToJSONFaunaDate ==
    \E this \in Receivers :
        /\ this.type = "FaunaDate"
        /\ Called("FaunaDate.toJSON", this, <<>>, FaunaDateToJSON(this))

\* The client drops what it holds and starts over.
Reset ==
    /\ op # ""
    /\ obj' = Undefined
    /\ op' = ""
    /\ args' = <<>>
    /\ self' = Undefined
    /\ ret' = Undefined
    /\ err' = "none"

Next ==
    \/ PushSegment
    \/ NewRef
    \/ GetClass
    \/ GetId
    \/ ToStringRef
    \/ ToJSONRef
    \/ Equals
    \/ NewSetRef
    \/ ToJSONSetRef
    \/ NewPage
    \/ FromRaw
    \/ MapData
    \/ NewFaunaTime
    \/ ToJSONFaunaTime
    \/ NewFaunaDate
    \/ ToJSONFaunaDate
    \/ Reset

Spec == Init /\ [][Next]_vars

----------------------------------------------------------------------------
(* Notions the properties are stated in *)

HasSlash(s) == \E i \in 1..Len(s) : s[i] = "/"

\* The position of the last "/" of a string that has one.
LastSlash(s) ==
    CHOOSE i \in 1..Len(s) : s[i] = "/" /\ \A j \in (i + 1)..Len(s) : s[j] # "/"

\* The string form of a path segment: the string, or the reference's value.
SegString(v) == IF v.type = "Ref" THEN v.value ELSE v.chars

\* Where segment i starts in the joined value (0-based).
RECURSIVE StartOf(_, _)
StartOf(segs, i) ==
    IF i = 1 THEN 0 ELSE StartOf(segs, i - 1) + Len(SegString(segs[i - 1])) + 1

BeginsOrEndsWithSlash(s) == Len(s) > 0 /\ (s[1] = "/" \/ s[Len(s)] = "/")

EndsInZ(s) == Len(s) > 0 /\ s[Len(s)] = "Z"

IsDigit(c) == c \in {"0", "1", "2", "3", "4", "5", "6", "7", "8", "9"}

\* YYYY-MM-DD
IsCalendarDate(s) ==
    /\ Len(s) = 10
    /\ \A i \in {1, 2, 3, 4, 6, 7, 9, 10} : IsDigit(s[i])
    /\ s[5] = "-"
    /\ s[8] = "-"

\* The part of an ISO date-time before its "T".
DatePortion(iso) ==
    LET t == CHOOSE i \in 1..Len(iso) : iso[i] = "T"
    IN  SubSeq(iso, 1, t - 1)

WireTag(type) ==
    CASE type = "Ref" -> "@ref"
      [] type = "SetRef" -> "@set"
      [] type = "FaunaTime" -> "@ts"
      [] type = "FaunaDate" -> "@date"

----------------------------------------------------------------------------
(* Properties *)

\* C1: for a reference whose value has two or more '/'-segments, class is a
\* reference whose value is the value up to (not including) the last '/',
\* and id is the string after the last '/'.
ClassAndIdSplitAtLastSlash ==
    /\ (op = "class" /\ HasSlash(self.value)) =>
           /\ err = "none"
           /\ ret.type = "Ref"
           /\ ret.value = SubSeq(self.value, 1, LastSlash(self.value) - 1)
    /\ (op = "id" /\ HasSlash(self.value)) =>
           /\ err = "none"
           /\ ret = Str(SubSeq(self.value, LastSlash(self.value) + 1,
                               Len(self.value)))

\* C1 happens: class of a three-segment reference built from three arguments.
ClassOfThreeSegments ==
    /\ op = "class"
    /\ self.value = <<"a", "/", "a", "a", "/", "a">>
    /\ ret.value = <<"a", "/", "a", "a">>

\* C2: for a reference whose value has no '/', class returns the reference
\* itself and id throws InvalidValue, returning nothing and leaving the
\* reference as it was.
SingleSegmentClassAndId ==
    /\ (op = "class" /\ ~HasSlash(self.value)) =>
           /\ err = "none"
           /\ ret = self
           /\ obj = self
    /\ (op = "id" /\ ~HasSlash(self.value)) =>
           /\ err = "InvalidValue"
           /\ ret = Undefined
           /\ obj = self

\* C2 happens: id was asked of the one-segment reference "aa" and threw.
IdOfSingleSegmentThrew ==
    /\ op = "id"
    /\ self.value = <<"a", "a">>
    /\ err = "InvalidValue"

\* C3: a FaunaTime is constructed from a string exactly when the string ends
\* with Z; a rejected string throws InvalidValue and yields no object, an
\* accepted one is stored unmodified, a valid native date is stored as its
\* ISO string, and every FaunaTime's value ends with Z.
TimestampRequiresZ ==
    /\ (op = "new FaunaTime" /\ args[1].type = "string") =>
           /\ (err = "none") <=> EndsInZ(args[1].chars)
           /\ ~EndsInZ(args[1].chars) =>
                  err = "InvalidValue" /\ ret = Undefined /\ obj = Undefined
           /\ EndsInZ(args[1].chars) =>
                  obj.type = "FaunaTime" /\ obj.value = args[1].chars
    /\ (op = "new FaunaTime" /\ args[1].type = "Date" /\ args[1].valid) =>
           /\ err = "none"
           /\ obj.type = "FaunaTime"
           /\ obj.value = DateToISOString(args[1])
    /\ \A v \in {obj, ret} : v.type = "FaunaTime" => EndsInZ(v.value)

\* C3 happens: a string with the offset +01:00 was rejected.
OffsetTimestampRejected ==
    /\ op = "new FaunaTime"
    /\ args[1] = Str(WithOffset(DateToISOString(DateAt(19523, 86399000))))
    /\ err = "InvalidValue"

\* C4: mapData(f) on any Page returns a Page whose data has the same length
\* with data[i] = f(P.data[i]) at every index, whose before and after are
\* P's, and leaves P as it was.
MapDataMapsEveryPage ==
    op = "mapData" =>
        /\ err = "none"
        /\ ret.type = "Page"
        /\ ret.data.type = "Array"
        /\ Len(ret.data.items) = Len(self.data.items)
        /\ \A i \in 1..Len(self.data.items) :
               ret.data.items[i] = args[1].map[self.data.items[i]]
        /\ ret.before = self.before
        /\ ret.after = self.after
        /\ obj = self

\* What does hold of mapData: the same, for a Page whose data is an array.
MapDataMapsArrayPages ==
    (op = "mapData" /\ self.data.type = "Array") =>
        /\ err = "none"
        /\ ret.type = "Page"
        /\ ret.data.type = "Array"
        /\ Len(ret.data.items) = Len(self.data.items)
        /\ \A i \in 1..Len(self.data.items) :
               ret.data.items[i] = args[1].map[self.data.items[i]]
        /\ ret.before = self.before
        /\ ret.after = self.after
        /\ obj = self

\* C5: the value of a reference constructed from one or more non-empty
\* segments is the segments' string forms in order, each two consecutive
\* ones separated by exactly one '/'.
ValueIsSegmentsJoined ==
    (/\ op = "new Ref"
     /\ Len(args) >= 1
     /\ \A i \in 1..Len(args) : SegString(args[i]) # <<>>) =>
        /\ err = "none"
        /\ obj.type = "Ref"
        /\ Len(obj.value) = StartOf(args, Len(args)) + Len(SegString(args[Len(args)]))
        /\ \A i \in 1..Len(args) :
               /\ \A k \in 1..Len(SegString(args[i])) :
                      obj.value[StartOf(args, i) + k] = SegString(args[i])[k]
               /\ i > 1 => obj.value[StartOf(args, i)] = "/"

\* C5 happens: a reference, a string and a string, none empty, were joined.
JoinedReferenceAndStrings ==
    /\ op = "new Ref"
    /\ Len(args) = 3
    /\ args[1] = RefNew(<<Str(<<"a">>), Str(<<"a", "a">>)>>)
    /\ args[2] = Str(<<"a", "a">>)
    /\ args[3] = Str(<<"a">>)

\* C6: equals is reflexive, symmetric, true of two references exactly when
\* their values are the same string, and false of anything that is no
\* reference, a string equal to the value included.
EqualsIsTypedValueEquality ==
    op = "equals" =>
        /\ err = "none"
        /\ ret.type = "boolean"
        /\ obj = self
        /\ args[1] = self => ret.b
        /\ args[1].type = "Ref" =>
               /\ ret.b <=> (args[1].value = self.value)
               /\ ret = RefEquals(args[1], self).ret
        /\ args[1].type # "Ref" => ~ret.b

\* C6 happens: a reference was compared with the string of its own value.
ComparedWithOwnValueString ==
    /\ op = "equals"
    /\ self.value = <<"a", "/", "a">>
    /\ args[1] = Str(self.value)
    /\ ret = Bool(FALSE)

\* C7: a FaunaDate constructed from a native date holds the YYYY-MM-DD date
\* portion of the date's ISO form; constructed from a string it holds the
\* string as given.
CalendarDateIsDatePortion ==
    /\ (op = "new FaunaDate" /\ args[1].type = "Date" /\ args[1].valid) =>
           /\ err = "none"
           /\ obj.type = "FaunaDate"
           /\ obj.value = DatePortion(DateToISOString(args[1]))
           /\ IsCalendarDate(obj.value)
    /\ (op = "new FaunaDate" /\ args[1].type = "string") =>
           /\ err = "none"
           /\ obj.type = "FaunaDate"
           /\ obj.value = args[1].chars

\* C8: toJSON of a Ref, SetRef, FaunaTime or FaunaDate is an object with the
\* one key @ref, @set, @ts or @date, the key of no other type, holding the
\* stored value (for a SetRef the query as given to the constructor), and
\* leaves the object as it was.
WireEncodingIsTaggedValue ==
    /\ op = "new SetRef" => obj.type = "SetRef" /\ obj.query = args[1]
    /\ op \in {"Ref.toJSON", "SetRef.toJSON", "FaunaTime.toJSON", "FaunaDate.toJSON"} =>
           /\ err = "none"
           /\ obj = self
           /\ ret.type = "Object"
           /\ DOMAIN ret.fields = {WireTag(self.type)}
           /\ \A t \in {"Ref", "SetRef", "FaunaTime", "FaunaDate"} :
                  WireTag(t) \in DOMAIN ret.fields => t = self.type
           /\ ret.fields[WireTag(self.type)]
                  = (IF self.type = "SetRef" THEN self.query ELSE self.value)

\* C8 happens: a SetRef wrapping a query object was encoded.
EncodedSetRefOfObject ==
    /\ op = "SetRef.toJSON"
    /\ self.query.type = "Object"
    /\ ret.fields["@set"] = self.query

\* C9 as stated: constructed from one or more segments none of which begins
\* or ends with '/', empty segments included, the value neither begins nor
\* ends with '/'.
NoOuterSlashFromCleanSegments ==
    (/\ op = "new Ref"
     /\ Len(args) >= 1
     /\ \A i \in 1..Len(args) : ~BeginsOrEndsWithSlash(SegString(args[i]))) =>
        ~BeginsOrEndsWithSlash(obj.value)

\* C9 amended: constructed from one or more segments none of which begins or
\* ends with '/', the first and the last of them not empty, the value
\* neither begins nor ends with '/'.
NoOuterSlashFromCleanSegmentsNonEmptyEnds ==
    (/\ op = "new Ref"
     /\ Len(args) >= 1
     /\ \A i \in 1..Len(args) : ~BeginsOrEndsWithSlash(SegString(args[i]))
     /\ SegString(args[1]) # <<>>
     /\ SegString(args[Len(args)]) # <<>>) =>
        /\ err = "none"
        /\ obj.type = "Ref"
        /\ ~BeginsOrEndsWithSlash(obj.value)

\* C9 amended happens: three segments, the middle one empty.
JoinedAroundEmptyMiddle ==
    /\ op = "new Ref"
    /\ args = <<Str(<<"a">>), Str(<<>>), Str(<<"a", "a">>)>>
    /\ obj.value = <<"a", "/", "/", "a", "a">>

\* C10: the data of every Page the client holds or was returned is an array.
PageDataIsAlwaysArray ==
    \A v \in {obj, ret} : v.type = "Page" => v.data.type = "Array"

====
